---- MODULE Spec2Model ----
(***************************************************************************)
(* Model of the stock scanner: the analysis functions (pickGrowth,         *)
(* scoreScanner, normalize, computeIntrinsicValue, projectFuturePrices),   *)
(* the single-symbol route (GET) and the batch scan route (POST).          *)
(*                                                                         *)
(* Numbers.  A JavaScript number is modelled as a record [k, n]:           *)
(*   k = "num"  : a finite number, n its value in units of 1/PREC          *)
(*   k = "nan", "inf", "ninf" : NaN, +Infinity, -Infinity                  *)
(*   k = "null" : null or undefined (a missing field)                      *)
(* Every arithmetic operation rounds its result to the nearest 1/PREC, as  *)
(* IEEE-754 rounds every operation to the nearest double, and overflows to *)
(* an infinity beyond MaxDouble, as a double does beyond 1.797e308.  The   *)
(* model's format is narrower than a double; the special values and the    *)
(* rules that produce them are those of the language.  Signed zero is not  *)
(* modelled: every zero divisor of the program is +0 (Math.pow(0, t)).     *)
(***************************************************************************)
EXTENDS Integers, Sequences, FiniteSets, TLC

\* ------------------------------------------------------------ numbers

\* Units per 1: four decimal digits.
PREC == 10 * 10 * 10 * 10
\* The largest finite value (stands for Number.MAX_VALUE).
MaxDouble == 5 * PREC
MaxN == MaxDouble * PREC

Null == [k |-> "null", n |-> 0]
NaN == [k |-> "nan", n |-> 0]
PosInf == [k |-> "inf", n |-> 0]
NegInf == [k |-> "ninf", n |-> 0]
Num(n) == [k |-> "num", n |-> n]
\* The decimal a/b, for a/b a multiple of 1/PREC.
Frac(a, b) == Num((a * PREC) \div b)
Int_(i) == Num(i * PREC)
Zero == Num(0)
One == Num(PREC)
\* The largest finite number, as an upstream "very large" value.
Huge == Num(MaxN)

Abs(i) == IF i < 0 THEN -i ELSE i
IsNum(a) == a.k = "num"
IsNaN(a) == a.k = "nan"
IsNull(a) == a.k = "null"
IsInf(a) == a.k \in {"inf", "ninf"}
\* -1, 0, 1: the sign of a non-NaN number.
Sgn(a) ==
  CASE a.k = "inf" -> 1
    [] a.k = "ninf" -> -1
    [] a.k = "num" -> (IF a.n > 0 THEN 1 ELSE IF a.n < 0 THEN -1 ELSE 0)
    [] OTHER -> 0
SignedInf(s) == IF s < 0 THEN NegInf ELSE PosInf
\* A result of magnitude m (in units) and sign s, overflowing to an infinity.
Fin(s, m) == IF m > MaxN THEN SignedInf(s) ELSE Num(s * m)

\* typeof v === "number" && isFinite(v)
IsFiniteNumber(a) == a.k = "num"
\* !!v for a number or a missing value: null, undefined, NaN and 0 are falsy.
Truthy(a) == a.k \in {"inf", "ninf"} \/ (a.k = "num" /\ a.n # 0)
\* a ?? b
Coalesce(a, b) == IF IsNull(a) THEN b ELSE a

Neg(a) ==
  CASE a.k = "num" -> Num(-a.n)
    [] a.k = "inf" -> NegInf
    [] a.k = "ninf" -> PosInf
    [] OTHER -> a

\* a + b
Add(a, b) ==
  CASE IsNaN(a) \/ IsNaN(b) -> NaN
    [] IsInf(a) /\ IsInf(b) -> (IF a.k = b.k THEN a ELSE NaN)
    [] IsInf(a) -> a
    [] IsInf(b) -> b
    [] OTHER -> LET s == a.n + b.n IN Fin(IF s < 0 THEN -1 ELSE 1, Abs(s))

\* a - b
Sub(a, b) == Add(a, Neg(b))

\* a * b, rounded to the nearest unit.
Mul(a, b) ==
  CASE IsNaN(a) \/ IsNaN(b) -> NaN
    [] IsInf(a) \/ IsInf(b) ->
         (IF Sgn(a) = 0 \/ Sgn(b) = 0 THEN NaN ELSE SignedInf(Sgn(a) * Sgn(b)))
    [] OTHER ->
         LET x == Abs(a.n)
             y == Abs(b.n)
             xh == x \div PREC
             xl == x % PREC
             yh == y \div PREC
             yl == y % PREC
             s == IF Sgn(a) * Sgn(b) < 0 THEN -1 ELSE 1
         IN IF yh > 0 /\ xh > MaxDouble \div yh
              THEN SignedInf(s)
              ELSE Fin(s, xh * yh * PREC + xh * yl + xl * yh
                          + (xl * yl + PREC \div 2) \div PREC)

\* The quotient digits of r/y below the unit: long division, one decimal
\* digit a step, so that no intermediate exceeds 10*y.
RECURSIVE FracDigits(_, _, _, _)
FracDigits(r, y, q, place) ==
  IF place = 1
    THEN q + (IF 2 * r >= y THEN 1 ELSE 0)
    ELSE LET d == (r * 10) \div y
             p == place \div 10
         IN FracDigits((r * 10) % y, y, q + d * p, p)

\* The largest divisor the long division takes digit by digit.
DivSafe == 2 * PREC

\* a / b, rounded to the nearest unit; x/0 is an infinity of x's sign, 0/0 NaN.
Div(a, b) ==
  CASE IsNaN(a) \/ IsNaN(b) -> NaN
    [] IsInf(a) /\ IsInf(b) -> NaN
    [] IsInf(a) -> SignedInf(IF Sgn(b) < 0 THEN -Sgn(a) ELSE Sgn(a))
    [] IsInf(b) -> Zero
    [] b.n = 0 -> (IF a.n = 0 THEN NaN ELSE SignedInf(Sgn(a)))
    [] OTHER ->
         LET x == Abs(a.n)
             s == IF Sgn(a) * Sgn(b) < 0 THEN -1 ELSE 1
             big == Abs(b.n) > DivSafe * PREC
             \* a divisor too wide for the digit steps is first rounded to 1/1
             y == IF big THEN Abs(b.n) \div PREC ELSE Abs(b.n)
             q0 == x \div y
         IN IF big
              THEN Fin(s, q0 + (IF 2 * (x % y) >= y THEN 1 ELSE 0))
              ELSE IF q0 > MaxDouble
                     THEN SignedInf(s)
                     ELSE Fin(s, q0 * PREC + FracDigits(x % y, y, 0, PREC))

\* a < b, a <= b, a === b on numbers: false when either is NaN.
Key(a) == CASE a.k = "inf" -> MaxN + 1 [] a.k = "ninf" -> -(MaxN + 1) [] OTHER -> a.n
Lt(a, b) == ~IsNaN(a) /\ ~IsNaN(b) /\ Key(a) < Key(b)
Le(a, b) == ~IsNaN(a) /\ ~IsNaN(b) /\ Key(a) <= Key(b)
Eq(a, b) == ~IsNaN(a) /\ ~IsNaN(b) /\ Key(a) = Key(b)

\* Math.max(a, b), Math.min(a, b): NaN when either is NaN.
MathMax(a, b) == IF IsNaN(a) \/ IsNaN(b) THEN NaN ELSE IF Lt(a, b) THEN b ELSE a
MathMin(a, b) == IF IsNaN(a) \/ IsNaN(b) THEN NaN ELSE IF Lt(b, a) THEN b ELSE a

\* Math.round(a): floor(a + 0.5); NaN and the infinities are returned as they are.
MathRound(a) ==
  IF IsNum(a) THEN Num(((a.n + PREC \div 2) \div PREC) * PREC) ELSE a

\* Math.pow(b, e) for an integral or NaN exponent: pow(x, 0) is 1 for every x,
\* pow(x, NaN) is NaN.
RECURSIVE PowNat(_, _)
PowNat(b, e) == IF e = 0 THEN One ELSE Mul(PowNat(b, e - 1), b)
MathPow(b, e) ==
  CASE IsNaN(e) -> NaN
    [] e.n = 0 -> One
    [] e.n > 0 -> PowNat(b, e.n \div PREC)
    [] OTHER -> Div(One, PowNat(b, (-e.n) \div PREC))

\* ----------------------------------------------------------- analysis

\* DefaultAssumptions, as the module sets it.
DefaultAssumptionsValue ==
  [discountRate |-> Frac(10, 100), baseGrowth |-> Frac(12, 100),
   highGrowth |-> Frac(18, 100), lowGrowth |-> Frac(8, 100),
   years |-> Int_(5), exitPE |-> Int_(15), dividendPayoutRatio |-> Frac(15, 100)]

\* An EarningsTrend with no estimate: {} or undefined.
NoEarnings == [growthLongTerm |-> Null, growthNextYear |-> Null, growthThisYear |-> Null]
\* Financials with no field: {}.
NoFinancials == [returnOnEquity |-> Null, debtToEquity |-> Null, profitMargins |-> Null]

\* values.reduce((a, b) => a + b, 0)
RECURSIVE SumSeq(_)
SumSeq(vs) == IF vs = <<>> THEN Zero ELSE Add(SumSeq(SubSeq(vs, 1, Len(vs) - 1)), vs[Len(vs)])

\* The estimates pickGrowth keeps: the finite numbers, in the order long-term,
\* next-year, this-year.
GrowthValues(earnings) ==
  SelectSeq(<<earnings.growthLongTerm, earnings.growthNextYear, earnings.growthThisYear>>,
            IsFiniteNumber)

\* Math.max(0, Math.min(0.30, avg))
ClampGrowth(avg) == MathMax(Zero, MathMin(Frac(30, 100), avg))

\* pickGrowth with the clamp applied to the fallback too.
pickGrowth_ClampsFallback(earnings, fallback) ==
  LET values == GrowthValues(earnings)
  IN IF Len(values) = 0
       THEN ClampGrowth(fallback)
       ELSE ClampGrowth(Div(SumSeq(values), Int_(Len(values))))

pickGrowth(earnings, fallback) ==
  LET values == GrowthValues(earnings)
  IN IF Len(values) = 0
       THEN fallback
       ELSE ClampGrowth(Div(SumSeq(values), Int_(Len(values))))

\* normalize measuring from the numerically lower bound in both directions.
normalize_FromLowerBound(value, low, high) ==
  IF IsNull(value) \/ ~IsNum(value) THEN Frac(5, 10)
  ELSE IF Eq(low, high) THEN Frac(5, 10)
  ELSE IF Lt(low, high) THEN Div(Sub(value, low), Sub(high, low))
  ELSE Div(Sub(value, high), Sub(low, high))

normalize(value, low, high) ==
  IF IsNull(value) \/ ~IsNum(value) THEN Frac(5, 10)
  ELSE IF Eq(low, high) THEN Frac(5, 10)
  ELSE IF Lt(low, high) THEN Div(Sub(value, low), Sub(high, low))
  ELSE Div(Sub(low, value), Sub(low, high))

\* Math.max(0, Math.min(1, n))
clamp01(n) == MathMax(Zero, MathMin(One, n))

\* The five sub-scores before clamping.
RawScores(input) ==
  LET roe == Coalesce(input.financials.returnOnEquity, Null)
      de == Coalesce(input.financials.debtToEquity, Null)
      margin == Coalesce(input.financials.profitMargins, Null)
      pe == Coalesce(input.quote.trailingPE, Coalesce(input.quote.forwardPE, Null))
      peg == Coalesce(input.quote.pegRatio, Null)
  IN [profitability |->
        Add(Mul(normalize(roe, Frac(5, 100), Frac(30, 100)), Frac(6, 10)),
            Mul(normalize(margin, Frac(5, 100), Frac(30, 100)), Frac(4, 10))),
      growth |->
        normalize(pickGrowth(input.earnings, Frac(12, 100)), Frac(5, 100), Frac(25, 100)),
      financialHealth |->
        Add(Mul(Sub(One, normalize(de, Int_(30), Int_(150))), Frac(7, 10)),
            Mul(normalize(margin, Frac(5, 100), Frac(25, 100)), Frac(3, 10))),
      valuation |->
        Add(Mul(Sub(One, normalize(pe, Int_(10), Int_(35))), Frac(6, 10)),
            Mul(Sub(One, normalize(peg, Frac(8, 10), Int_(2))), Frac(4, 10))),
      momentum |->
        normalize(Coalesce(input.priceChange1y, Null), Frac(-2, 10), Frac(6, 10))]

\* (p * 0.28 + g * 0.28 + f * 0.18 + v * 0.18 + m * 0.08) * 100
WeightedTotal(p, g, f, v, m) ==
  Mul(Add(Add(Add(Add(Mul(p, Frac(28, 100)), Mul(g, Frac(28, 100))),
                  Mul(f, Frac(18, 100))),
              Mul(v, Frac(18, 100))),
          Mul(m, Frac(8, 100))),
      Int_(100))

\* scoreScanner with the total computed from the displayed integers.
scoreScanner_TotalFromDisplayed(input) ==
  LET raw == RawScores(input)
      d(x) == MathRound(Mul(clamp01(x), Int_(100)))
  IN [profitability |-> d(raw.profitability),
      growth |-> d(raw.growth),
      financialHealth |-> d(raw.financialHealth),
      valuation |-> d(raw.valuation),
      momentum |-> d(raw.momentum),
      total |-> MathRound(Div(WeightedTotal(d(raw.profitability), d(raw.growth),
                                            d(raw.financialHealth), d(raw.valuation),
                                            d(raw.momentum)),
                              Int_(100)))]

scoreScanner(input) ==
  LET raw == RawScores(input)
      p == clamp01(raw.profitability)
      g == clamp01(raw.growth)
      f == clamp01(raw.financialHealth)
      v == clamp01(raw.valuation)
      m == clamp01(raw.momentum)
  IN [profitability |-> MathRound(Mul(p, Int_(100))),
      growth |-> MathRound(Mul(g, Int_(100))),
      financialHealth |-> MathRound(Mul(f, Int_(100))),
      valuation |-> MathRound(Mul(v, Int_(100))),
      momentum |-> MathRound(Mul(m, Int_(100))),
      total |-> MathRound(WeightedTotal(p, g, f, v, m))]

\* The guard without its eps <= 0 test.
NoIntrinsicInputs_NoSignTest(eps, price) ==
  ~Truthy(eps) \/ ~IsNum(eps) \/ ~Truthy(price)

\* !eps || !isFinite(eps) || eps <= 0 || !quote.regularMarketPrice
NoIntrinsicInputs(eps, price) ==
  ~Truthy(eps) \/ ~IsNum(eps) \/ Le(eps, Zero) \/ ~Truthy(price)

\* The loop of computeIntrinsicValue from year t on: presentValue after it.
RECURSIVE PresentValueFrom(_, _, _, _, _, _, _)
PresentValueFrom(t, eps_t, presentValue, years, g, r, payout) ==
  IF ~Le(Int_(t), years)
    THEN presentValue
    ELSE LET e == Mul(eps_t, Add(One, g))
             cashFlow == Mul(e, payout)
         IN PresentValueFrom(t + 1, e,
                             Add(presentValue, Div(cashFlow, MathPow(Add(One, r), Int_(t)))),
                             years, g, r, payout)

\* The intrinsic value with the terminal price left undiscounted.
IntrinsicOf_TerminalUndiscounted(eps, g, years, r, exitPE, payout) ==
  LET presentValue == PresentValueFrom(1, eps, Zero, years, g, r, payout)
      terminalPrice == Mul(Mul(eps, MathPow(Add(One, g), years)), exitPE)
  IN Add(presentValue, terminalPrice)

\* presentValue + discountedTerminal
IntrinsicOf(eps, g, years, r, exitPE, payout) ==
  LET presentValue == PresentValueFrom(1, eps, Zero, years, g, r, payout)
      terminalPrice == Mul(Mul(eps, MathPow(Add(One, g), years)), exitPE)
      discountedTerminal == Div(terminalPrice, MathPow(Add(One, r), years))
  IN Add(presentValue, discountedTerminal)

\* ((intrinsic - price) / price) * 100
UpsideOf(intrinsic, price) == Mul(Div(Sub(intrinsic, price), price), Int_(100))

computeIntrinsicValue(quote, earnings, assumptions) ==
  LET eps == Coalesce(quote.epsTrailingTwelveMonths, Null)
      g == pickGrowth(earnings, assumptions.baseGrowth)
      inputsUsed == [epsTtm |-> eps, growth |-> g, years |-> assumptions.years,
                     discountRate |-> assumptions.discountRate,
                     exitPE |-> assumptions.exitPE,
                     dividendPayoutRatio |-> assumptions.dividendPayoutRatio]
  IN IF NoIntrinsicInputs(eps, quote.regularMarketPrice)
       THEN [intrinsicValue |-> Null, upsidePercent |-> Null, inputsUsed |-> inputsUsed]
       ELSE LET intrinsic == IntrinsicOf(eps, g, assumptions.years, assumptions.discountRate,
                                         assumptions.exitPE, assumptions.dividendPayoutRatio)
            IN [intrinsicValue |-> intrinsic,
                upsidePercent |-> UpsideOf(intrinsic, quote.regularMarketPrice),
                inputsUsed |-> inputsUsed]

\* The three growth rates projectFuturePrices compounds.
ProjectionGrowth(earnings, assumptions) ==
  LET baseG == pickGrowth(earnings, assumptions.baseGrowth)
  IN [low |-> MathMax(Zero, MathMin(baseG, assumptions.lowGrowth)),
      base |-> baseG,
      high |-> MathMax(baseG, assumptions.highGrowth)]

\* !eps || !price
NoProjectionInputs(eps, price) == ~Truthy(eps) \/ ~Truthy(price)

\* const horizons = [5, 10]
Horizons == <<5, 10>>

projectFuturePrices(quote, earnings, assumptions) ==
  LET price == Coalesce(quote.regularMarketPrice, Null)
      eps == Coalesce(quote.epsTrailingTwelveMonths, Null)
      gr == ProjectionGrowth(earnings, assumptions)
      One_(h) ==
        IF NoProjectionInputs(eps, price)
          THEN [horizonYears |-> h, low |-> Null, base |-> Null, high |-> Null]
          ELSE [horizonYears |-> h,
                low |-> Mul(Mul(eps, MathPow(Add(One, gr.low), Int_(h))), assumptions.exitPE),
                base |-> Mul(Mul(eps, MathPow(Add(One, gr.base), Int_(h))), assumptions.exitPE),
                high |-> Mul(Mul(eps, MathPow(Add(One, gr.high), Int_(h))), assumptions.exitPE)]
  IN [i \in 1..Len(Horizons) |-> One_(Horizons[i])]

\* -------------------------------------------------------------- state

VARIABLES
  pc,                  \* where the running handler or call stands
  DefaultAssumptions,  \* the module-level record of lib/analysis
  input,               \* the argument of the function applied alone
  score,               \* its result
  query,               \* GET: the search parameters of the request
  summary,             \* GET: what fetchSummary answered
  assumptions,         \* the handler's own Assumptions value
  intrinsic,           \* GET: computeIntrinsicValue's result
  rates,               \* GET: the growth rates projectFuturePrices compounded
  projections,         \* GET: projectFuturePrices' result
  body,                \* POST: the request body
  quotes,              \* POST: what fetchQuoteBatch answered
  fetches,             \* POST: per quote, the state of its two fetches
  perSymbol,           \* POST: per quote, the row its task returned (or none yet)
  response,            \* the handler's response
  previous             \* the Assumptions value of the request served before

getVars == <<query, summary, intrinsic, rates, projections>>
postVars == <<body, quotes, fetches, perSymbol>>
vars ==
  <<pc, DefaultAssumptions, previous, input, score, assumptions, getVars, postVars, response>>

\* A variable a specification does not use.
Idle == [k |-> "idle"]

\* ------------------------------------------------- scoreScanner alone

\* The inputs scoreScanner is applied to: each field missing, ordinary, out
\* of its calibration range, very large or infinite.
ScoreInputs ==
  { [quote |-> [trailingPE |-> tpe, forwardPE |-> fpe, pegRatio |-> peg],
     financials |-> [returnOnEquity |-> roe, debtToEquity |-> de, profitMargins |-> margin],
     earnings |-> [growthLongTerm |-> gl, growthNextYear |-> gn, growthThisYear |-> Null],
     priceChange1y |-> ch] :
      tpe \in {Null, Frac(187, 10)},
      fpe \in {Null, Int_(40)},
      peg \in {Null, Frac(11, 10), Int_(-1)},
      roe \in {Null, Frac(22, 100), Huge, Neg(Huge)},
      de \in {Null, Int_(45), Huge},
      margin \in {Null, Frac(123, 1000), PosInf, Huge, Neg(Huge)},
      gl \in {Null, Frac(10, 100), Frac(40, 100)},
      gn \in {Null, Frac(17, 100), NegInf},
      ch \in {Null, Frac(33, 100), Frac(-5, 10), Huge} }

InitScore ==
  /\ pc = "start"
  /\ DefaultAssumptions = DefaultAssumptionsValue
  /\ input \in ScoreInputs
  /\ score = Idle
  /\ query = Idle /\ summary = Idle /\ assumptions = Idle
  /\ intrinsic = Idle /\ rates = Idle /\ projections = Idle /\ response = Idle
  /\ previous = Idle
  /\ body = Idle /\ quotes = Idle /\ fetches = Idle /\ perSymbol = Idle

\* scoreScanner(input)
ScoreScanner ==
  /\ pc = "start"
  /\ score' = scoreScanner(input)
  /\ pc' = "done"
  /\ UNCHANGED <<DefaultAssumptions, previous, input, assumptions, getVars, postVars, response>>

NextScore == ScoreScanner

SpecScore == InitScore /\ [][NextScore]_vars

\* An integer in [0, 100].
IsScore(a) == IsNum(a) /\ a.n % PREC = 0 /\ 0 <= a.n /\ a.n <= 100 * PREC

ScoreFields == {"profitability", "growth", "financialHealth", "valuation", "momentum", "total"}

\* C1: every sub-score and the total scoreScanner returns is an integer in
\* [0, 100], whatever the input.
C1_ScoresInRange == pc = "done" => \A f \in ScoreFields : IsScore(score[f])

\* ------------------------------------------------- the single-symbol route

\* Number(s) on the query strings of the model; "abc" is any text that is
\* not a numeric literal.
NumberOf(s) ==
  CASE s = "0" -> Zero
    [] s = "1" -> Int_(1)
    [] s = "3" -> Int_(3)
    [] s = "-1" -> Int_(-1)
    [] s = "0.5" -> Frac(5, 10)
    [] s = "-0.1" -> Frac(-1, 10)
    [] s = "20" -> Int_(20)
    [] OTHER -> NaN

\* s.toUpperCase() on the symbols of the model.
ToUpperCase(s) ==
  CASE s = "aapl" -> "AAPL"
    [] s = "aaa" -> "AAA"
    [] s = "bbb" -> "BBB"
    [] s = "ccc" -> "CCC"
    [] OTHER -> s

\* searchParams.get(name) is null for an absent parameter; "" stands for both
\* the absent and the empty one, which `if (dr)` treats alike.
Queries ==
  [symbol : {"", "aapl"},
   discountRate : {"", "0", "-1", "abc"},
   growth : {"", "0", "0.5", "-0.1", "abc"},
   years : {"", "1", "3", "abc"},
   exitPE : {"", "0", "20"}]

\* What fetchSummary can answer: the fields the analysis reads, each missing,
\* a JSON number, or the Infinity an overflowing JSON literal parses to.
Summaries ==
  { [quote |-> [symbol |-> "AAPL", epsTrailingTwelveMonths |-> eps,
                regularMarketPrice |-> price],
     earningsTrend |-> [growthLongTerm |-> gl, growthNextYear |-> gn, growthThisYear |-> gt]] :
      eps \in {Null, Zero, Int_(-2), Int_(10), PosInf},
      price \in {Null, Zero, Int_(100)},
      gl \in {Null, Frac(10, 100), Frac(40, 100)},
      gn \in {Null, Frac(-5, 10), PosInf},
      gt \in {Null, Frac(50, 100)} }

InitValue ==
  /\ pc = "start"
  /\ DefaultAssumptions = DefaultAssumptionsValue
  /\ input = Idle /\ score = Idle
  /\ query \in Queries
  /\ summary = Idle /\ assumptions = Idle
  /\ intrinsic = Idle /\ rates = Idle /\ projections = Idle /\ response = Idle
  /\ previous = Idle
  /\ body = Idle /\ quotes = Idle /\ fetches = Idle /\ perSymbol = Idle

\* { ...DefaultAssumptions, ...a } with a built from the search parameters.
GetAssumptions(q) ==
  [DefaultAssumptions EXCEPT
     !.discountRate = IF q.discountRate # "" THEN NumberOf(q.discountRate) ELSE @,
     !.baseGrowth = IF q.growth # "" THEN NumberOf(q.growth) ELSE @,
     !.years = IF q.years # "" THEN NumberOf(q.years) ELSE @,
     !.exitPE = IF q.exitPE # "" THEN NumberOf(q.exitPE) ELSE @]

\* if (!symbol) return 400
GetNoSymbol ==
  /\ pc = "start"
  /\ ToUpperCase(query.symbol) = ""
  /\ response' = [status |-> 400]
  /\ pc' = "done"
  /\ UNCHANGED <<DefaultAssumptions, previous, input, score, assumptions, getVars, postVars>>

\* The handler up to its await: the assumptions are built, fetchSummary is called.
GetStart ==
  /\ pc = "start"
  /\ ToUpperCase(query.symbol) # ""
  /\ assumptions' = GetAssumptions(query)
  /\ pc' = "fetching"
  /\ UNCHANGED <<DefaultAssumptions, previous, input, score, getVars, postVars, response>>

\* fetchSummary throws (the request failed): the catch answers 500.
GetFetchFails ==
  /\ pc = "fetching"
  /\ response' = [status |-> 500]
  /\ pc' = "done"
  /\ UNCHANGED <<DefaultAssumptions, previous, input, score, assumptions, getVars, postVars>>

\* fetchSummary answers: the handler computes and responds.
GetFetched ==
  /\ pc = "fetching"
  /\ \E s \in Summaries :
       /\ summary' = s
       /\ intrinsic' = computeIntrinsicValue(s.quote, s.earningsTrend, assumptions)
       /\ rates' = ProjectionGrowth(s.earningsTrend, assumptions)
       /\ projections' = projectFuturePrices(s.quote, s.earningsTrend, assumptions)
  /\ response' = [status |-> 200]
  /\ pc' = "done"
  /\ UNCHANGED <<DefaultAssumptions, previous, input, score, query, assumptions, postVars>>

NextValue == GetNoSymbol \/ GetStart \/ GetFetchFails \/ GetFetched

SpecValue == InitValue /\ [][NextValue]_vars

\* The handler computed: intrinsic, rates and projections are those of the call.
Computed == pc = "done" /\ response.status = 200

\* The quote and the estimates the handler computed on.
Eps == summary.quote.epsTrailingTwelveMonths
Price == summary.quote.regularMarketPrice
Estimates == summary.earningsTrend

\* EPS is missing, zero, negative or not finite, or the price is missing or zero.
LacksInputs ==
  \/ IsNull(Eps) \/ ~IsNum(Eps) \/ Eps.n <= 0
  \/ IsNull(Price) \/ Price = Zero

\* C2: without a usable EPS or price computeIntrinsicValue returns null for
\* intrinsicValue and upsidePercent and still echoes in inputsUsed the growth
\* pickGrowth gives and the assumptions' scalars; with a finite positive EPS
\* and a non-zero price both results are non-null.
C2_NullWithoutInputs ==
  Computed =>
    /\ LacksInputs =>
         /\ intrinsic.intrinsicValue = Null
         /\ intrinsic.upsidePercent = Null
         /\ intrinsic.inputsUsed.growth = pickGrowth(Estimates, assumptions.baseGrowth)
         /\ intrinsic.inputsUsed.years = assumptions.years
         /\ intrinsic.inputsUsed.discountRate = assumptions.discountRate
         /\ intrinsic.inputsUsed.exitPE = assumptions.exitPE
         /\ intrinsic.inputsUsed.dividendPayoutRatio = assumptions.dividendPayoutRatio
    /\ ~LacksInputs =>
         /\ intrinsic.intrinsicValue # Null
         /\ intrinsic.upsidePercent # Null

\* A negative EPS with a price: null results, the overridden growth 0.5 echoed.
C2_Witness ==
  /\ Computed
  /\ Eps = Int_(-2) /\ Price = Int_(100)
  /\ query.growth = "0.5" /\ GrowthValues(Estimates) = <<>>
  /\ intrinsic.intrinsicValue = Null
  /\ intrinsic.inputsUsed.growth = Frac(5, 10)

\* C3: projectFuturePrices returns the horizons 5 and 10 in that order, with
\* low, base and high all null when EPS is missing, non-positive or not
\* finite or the price is missing or zero, and all numbers otherwise.
C3_ProjectionsNullWithoutInputs ==
  Computed =>
    /\ Len(projections) = 2
    /\ projections[1].horizonYears = 5
    /\ projections[2].horizonYears = 10
    /\ \A i \in 1..Len(projections) :
         IF LacksInputs
           THEN projections[i].low = Null /\ projections[i].base = Null
                /\ projections[i].high = Null
           ELSE projections[i].low # Null /\ projections[i].base # Null
                /\ projections[i].high # Null

\* A growth rate in [0, 0.30].
InClamp(g) == Le(Zero, g) /\ Le(g, Frac(30, 100))

\* C4: the growth compounded by computeIntrinsicValue and the low, base and
\* high growth of projectFuturePrices each lie in [0, 0.30].
C4_GrowthWithinClamp ==
  Computed =>
    /\ InClamp(intrinsic.inputsUsed.growth)
    /\ InClamp(rates.low) /\ InClamp(rates.base) /\ InClamp(rates.high)

\* C5: in projectFuturePrices the low growth is at most the base growth and
\* the high growth at least the base growth.
C5_LowBaseHigh == Computed => Le(rates.low, rates.base) /\ Le(rates.base, rates.high)

\* The finite estimates as a set of field names, their sum and their mean.
FiniteFields(e) == {f \in {"growthLongTerm", "growthNextYear", "growthThisYear"} : IsNum(e[f])}
OrZero(v) == IF IsNum(v) THEN v ELSE Zero
MeanOfFinite(e) ==
  Div(Add(Add(OrZero(e.growthLongTerm), OrZero(e.growthNextYear)), OrZero(e.growthThisYear)),
      Int_(Cardinality(FiniteFields(e))))
Clamped(m) == IF Lt(m, Zero) THEN Zero ELSE IF Lt(Frac(30, 100), m) THEN Frac(30, 100) ELSE m

\* C9: pickGrowth returns the fallback unchanged when no estimate is finite,
\* and otherwise the mean of the finite estimates clamped to [0, 0.30],
\* whatever the fallback.
C9_PickGrowth ==
  Computed =>
    intrinsic.inputsUsed.growth =
      IF FiniteFields(Estimates) = {}
        THEN assumptions.baseGrowth
        ELSE Clamped(MeanOfFinite(Estimates))

\* {0.40} alone gives 0.30 under a fallback of 0.5; no estimate gives the
\* fallback -0.1 back.
C9_Witness ==
  /\ Computed
  /\ \/ /\ Estimates.growthLongTerm = Frac(40, 100)
        /\ FiniteFields(Estimates) = {"growthLongTerm"}
        /\ assumptions.baseGrowth = Frac(5, 10)
        /\ intrinsic.inputsUsed.growth = Frac(30, 100)

\* The rounding slack of the arithmetic: a hundredth.
Slack == PREC \div 100
\* Equal, or finite and equal up to the rounding slack.
Near(a, b) == a = b \/ (IsNum(a) /\ IsNum(b) /\ Abs(a.n - b.n) <= Slack)

\* sum over t = 1..years of payout * eps * (1+g)^t / (1+r)^t
RECURSIVE DividendSum(_, _, _, _, _)
DividendSum(years, eps, g, r, payout) ==
  IF years <= 0 THEN Zero
  ELSE Add(DividendSum(years - 1, eps, g, r, payout),
           Div(Mul(Mul(payout, eps), MathPow(Add(One, g), Int_(years))),
               MathPow(Add(One, r), Int_(years))))

\* The intrinsic value of the closed formula.
FormulaValue(u) ==
  Add(DividendSum(u.years.n \div PREC, u.epsTtm, u.growth, u.discountRate,
                  u.dividendPayoutRatio),
      Div(Mul(Mul(u.epsTtm, MathPow(Add(One, u.growth), u.years)), u.exitPE),
          MathPow(Add(One, u.discountRate), u.years)))

\* 100 * (intrinsicValue - price) / price, as (intrinsicValue - price) over a
\* hundredth of the price.
FormulaUpside(v, price) == Div(Sub(v, price), Div(price, Int_(100)))

\* C10: with a usable EPS and price, intrinsicValue is the sum of the
\* discounted payouts plus the discounted terminal value and upsidePercent is
\* 100 * (intrinsicValue - price) / price, up to the arithmetic's rounding;
\* EPS 10, g 0, r 0, one year, exit P/E 15, payout 0.15 gives exactly 151.5.
C10_IntrinsicFormula ==
  (Computed /\ ~LacksInputs /\ IsNum(assumptions.years)) =>
    /\ Near(intrinsic.intrinsicValue, FormulaValue(intrinsic.inputsUsed))
    /\ Near(intrinsic.upsidePercent, FormulaUpside(intrinsic.intrinsicValue, Price))
    /\ (/\ Eps = Int_(10) /\ intrinsic.inputsUsed.growth = Zero
        /\ assumptions.discountRate = Zero /\ assumptions.years = Int_(1)
        /\ assumptions.exitPE = Int_(15)
        /\ assumptions.dividendPayoutRatio = Frac(15, 100))
       => intrinsic.intrinsicValue = Frac(1515, 10)

\* The example of the claim, and a run of three years at a discount.
C10_Witness ==
  /\ Computed
  /\ Eps = Int_(10) /\ Price = Int_(100)
  /\ query.growth = "0" /\ query.discountRate = "0" /\ query.years = "1"
  /\ query.exitPE = ""
  /\ GrowthValues(Estimates) = <<>>
  /\ intrinsic.intrinsicValue = Frac(1515, 10)
  /\ intrinsic.upsidePercent = Frac(515, 10)

\* ------------------------------------------------- the batch scan route

\* The cap of uniqueTickers: .slice(0, 50).
TickerCap == 50
\* The longest tickers array of a request.
MaxTickers == 3

\* The symbols the quote service knows; it leaves any other symbol out of
\* its answer.
Known == {"AAA", "BBB", "CCC"}
Tickers == Known \cup {"ZZZ"}

\* The upstream data of each known symbol.  A missing string is "", which
\* `||` treats as it treats undefined.
QuoteOf(sym) ==
  CASE sym = "AAA" ->
         [symbol |-> "AAA", shortName |-> "Alpha", longName |-> "Alpha Inc",
          regularMarketPrice |-> Int_(100), trailingPE |-> Frac(187, 10),
          forwardPE |-> Null, epsTrailingTwelveMonths |-> Int_(10),
          pegRatio |-> Frac(11, 10), currency |-> "USD"]
    [] sym = "BBB" ->
         [symbol |-> "BBB", shortName |-> "Beta", longName |-> "",
          regularMarketPrice |-> Int_(50), trailingPE |-> Null,
          forwardPE |-> Frac(187, 10), epsTrailingTwelveMonths |-> Null,
          pegRatio |-> Frac(11, 10), currency |-> ""]
    [] OTHER ->
         [symbol |-> "CCC", shortName |-> "", longName |-> "",
          regularMarketPrice |-> Int_(20), trailingPE |-> Int_(40),
          forwardPE |-> Int_(12), epsTrailingTwelveMonths |-> Int_(2),
          pegRatio |-> Null, currency |-> "EUR"]

\* What fetchSummary answers for a symbol: the two parts POST reads.
SummaryOf(sym) ==
  IF sym = "CCC"
    THEN [financials |-> [returnOnEquity |-> Huge, debtToEquity |-> Null,
                          profitMargins |-> Neg(Huge)],
          earningsTrend |-> NoEarnings]
    ELSE [financials |-> [returnOnEquity |-> Frac(22, 100), debtToEquity |-> Int_(45),
                          profitMargins |-> Frac(123, 1000)],
          earningsTrend |-> [growthLongTerm |-> Frac(10, 100), growthNextYear |-> Null,
                             growthThisYear |-> Null]]

\* What fetchPriceHistory answers for a symbol: closes, a null for a day
\* without a trade.
ClosesOf(sym) ==
  CASE sym = "AAA" -> <<Null, Int_(80), Int_(90), Int_(100)>>
    [] sym = "BBB" -> <<Int_(40), Null, Int_(50), Null>>
    [] OTHER -> <<Zero, Int_(10)>>

\* closes.find(v => typeof v === "number"), and the same on the reversed array.
FirstNumber(closes) ==
  LET idx == {i \in 1..Len(closes) : ~IsNull(closes[i])}
  IN IF idx = {} THEN Null ELSE closes[CHOOSE i \in idx : \A j \in idx : i <= j]
LastNumber(closes) ==
  LET idx == {i \in 1..Len(closes) : ~IsNull(closes[i])}
  IN IF idx = {} THEN Null ELSE closes[CHOOSE i \in idx : \A j \in idx : j <= i]

\* first && last ? (last - first) / first : null
PriceChange(closes) ==
  LET first == FirstNumber(closes)
      last == LastNumber(closes)
  IN IF Truthy(first) /\ Truthy(last) THEN Div(Sub(last, first), first) ELSE Null

\* a || b on strings
OrString(a, b) == IF a # "" THEN a ELSE b

\* The quote fields of a row, the same in the try and in the catch.
QuoteFields(q) ==
  [symbol |-> q.symbol,
   name |-> OrString(q.longName, OrString(q.shortName, q.symbol)),
   currency |-> OrString(q.currency, "USD"),
   price |-> Coalesce(q.regularMarketPrice, Null),
   pe |-> Coalesce(q.trailingPE, Coalesce(q.forwardPE, Null)),
   peg |-> Coalesce(q.pegRatio, Null),
   eps |-> Coalesce(q.epsTrailingTwelveMonths, Null)]

Row(qf, roe, de, sc, change, iv, up) ==
  [symbol |-> qf.symbol, name |-> qf.name, currency |-> qf.currency,
   price |-> qf.price, pe |-> qf.pe, peg |-> qf.peg, roe |-> roe, de |-> de,
   eps |-> qf.eps, score |-> sc, priceChange1y |-> change,
   intrinsicValue |-> iv, upsidePercent |-> up]

\* The row of a task whose two fetches answered.
FullRow(q, s, closes, a) ==
  LET change == PriceChange(closes)
      sc == scoreScanner([quote |-> q, financials |-> s.financials,
                          earnings |-> s.earningsTrend, priceChange1y |-> change])
      iv == computeIntrinsicValue(q, s.earningsTrend, a)
  IN Row(QuoteFields(q), Coalesce(s.financials.returnOnEquity, Null),
         Coalesce(s.financials.debtToEquity, Null), sc, change,
         iv.intrinsicValue, iv.upsidePercent)

\* A score with no number in it.
NullScore == [f \in {"profitability", "growth", "financialHealth", "valuation",
                     "momentum", "total"} |-> Null]

\* The catch with a null score in place of the call of scoreScanner.
PartialRow_NullScore(q) ==
  Row(QuoteFields(q), Null, Null, NullScore, Null, Null, Null)

\* The row of a task whose fetch failed.
PartialRow(q) ==
  Row(QuoteFields(q), Null, Null,
      scoreScanner([quote |-> q, financials |-> NoFinancials, earnings |-> NoEarnings,
                    priceChange1y |-> Null]),
      Null, Null, Null)

\* The value of the comparator of perSymbol.sort.
Comparator(a, b) ==
  IF ~Eq(b.score.total, a.score.total)
    THEN Sub(b.score.total, a.score.total)
    ELSE Sub(Coalesce(b.upsidePercent, NegInf), Coalesce(a.upsidePercent, NegInf))

\* How sort reads it: negative, zero or positive, a NaN as +0.
SortOrder(a, b) == LET v == Comparator(a, b) IN IF IsNaN(v) THEN 0 ELSE Sgn(v)

\* The comparator is a consistent comparator for the rows: the condition
\* under which the language defines the order sort produces.
ConsistentComparator(rows) ==
  LET R == {rows[i] : i \in 1..Len(rows)}
  IN \A a, b, c \in R :
       /\ SortOrder(a, a) = 0
       /\ SortOrder(a, b) = -SortOrder(b, a)
       /\ (SortOrder(a, b) = 0 /\ SortOrder(b, c) = 0) => SortOrder(a, c) = 0
       /\ (SortOrder(a, b) < 0 /\ SortOrder(b, c) < 0) => SortOrder(a, c) < 0
       /\ (SortOrder(a, b) > 0 /\ SortOrder(b, c) > 0) => SortOrder(a, c) > 0

\* Stable insertion of r into the sorted s.
RECURSIVE InsertRow(_, _)
InsertRow(s, r) ==
  IF s = <<>> THEN <<r>>
  ELSE IF SortOrder(s[Len(s)], r) <= 0 THEN Append(s, r)
  ELSE Append(InsertRow(SubSeq(s, 1, Len(s) - 1), r), s[Len(s)])

RECURSIVE StableSort(_)
StableSort(rows) ==
  IF rows = <<>> THEN <<>>
  ELSE InsertRow(StableSort(SubSeq(rows, 1, Len(rows) - 1)), rows[Len(rows)])

Permutations_(n) == {p \in [1..n -> 1..n] : \A i, j \in 1..n : i # j => p[i] # p[j]}

\* What perSymbol.sort can leave in perSymbol: the stable sorted order under
\* a consistent comparator, an implementation-defined order otherwise.
SortOutcomes(rows) ==
  IF ConsistentComparator(rows)
    THEN {StableSort(rows)}
    ELSE {[i \in 1..Len(rows) |-> rows[p[i]]] : p \in Permutations_(Len(rows))}

\* JSON.stringify of a number: NaN and the infinities are written as null.
JsonNumber(v) == IF IsNum(v) THEN v ELSE Null

\* The row as NextResponse.json writes it.
JsonRow(r) ==
  [symbol |-> r.symbol, name |-> r.name, currency |-> r.currency,
   price |-> JsonNumber(r.price), pe |-> JsonNumber(r.pe), peg |-> JsonNumber(r.peg),
   roe |-> JsonNumber(r.roe), de |-> JsonNumber(r.de), eps |-> JsonNumber(r.eps),
   score |-> [f \in DOMAIN r.score |-> JsonNumber(r.score[f])],
   priceChange1y |-> JsonNumber(r.priceChange1y),
   intrinsicValue |-> JsonNumber(r.intrinsicValue),
   upsidePercent |-> JsonNumber(r.upsidePercent)]

\* Array.from(new Set(tickers)): the first occurrence of each ticker, in order.
RECURSIVE Unique(_)
Unique(s) ==
  IF s = <<>> THEN <<>>
  ELSE LET front == Unique(SubSeq(s, 1, Len(s) - 1))
           last == s[Len(s)]
       IN IF \E i \in 1..Len(front) : front[i] = last THEN front ELSE Append(front, last)

\* body.tickersText: absent (or not a string), or a string.
NoText == [k |-> "undefined", s |-> ""]
Text(s) == [k |-> "string", s |-> s]

\* text.split(/[\s,\n]+/) on the texts of the model.
Split(text) ==
  CASE text = "aaa, bbb" -> <<"aaa", "bbb">>
    [] text = " ccc" -> <<"", "ccc">>
    [] OTHER -> <<text>>

\* .map(s => s.trim().toUpperCase()).filter(Boolean)
UpperNonEmpty(tokens) ==
  SelectSeq([i \in 1..Len(tokens) |-> ToUpperCase(tokens[i])], LAMBDA t : t # "")

\* The tickers of the request: body.tickers, or the tokens of body.tickersText
\* when that is empty or not an array.
RequestTickers(b) ==
  IF Len(b.tickers) = 0 /\ b.tickersText.k = "string"
    THEN UpperNonEmpty(Split(b.tickersText.s))
    ELSE b.tickers

UniqueTickers(b) ==
  LET u == Unique(RequestTickers(b))
  IN SubSeq(u, 1, IF Len(u) < TickerCap THEN Len(u) ELSE TickerCap)

\* body.assumptions: a field that is Null is absent from the object.
NoOverride ==
  [discountRate |-> Null, baseGrowth |-> Null, highGrowth |-> Null, lowGrowth |-> Null,
   years |-> Null, exitPE |-> Null, dividendPayoutRatio |-> Null]
Overrides == {NoOverride, [NoOverride EXCEPT !.years = Int_(1), !.discountRate = Zero]}

\* { ...DefaultAssumptions, ...body.assumptions }
PostAssumptions(b) ==
  [f \in DOMAIN DefaultAssumptions |->
     IF IsNull(b.assumptions[f]) THEN DefaultAssumptions[f] ELSE b.assumptions[f]]

\* The request bodies: a tickers array (the empty one also stands for a body
\* without an array), or a tickersText.
Bodies ==
  {[tickers |-> t, tickersText |-> NoText, assumptions |-> o] :
     t \in UNION {[1..k -> Tickers] : k \in 0..MaxTickers}, o \in Overrides}
  \cup {[tickers |-> <<>>, tickersText |-> Text(x), assumptions |-> NoOverride] :
          x \in {"", "aaa, bbb", " ccc"}}

InitScan ==
  /\ pc = "start"
  /\ DefaultAssumptions = DefaultAssumptionsValue
  /\ input = Idle /\ score = Idle
  /\ query = Idle /\ summary = Idle /\ assumptions = Idle
  /\ intrinsic = Idle /\ rates = Idle /\ projections = Idle /\ response = Idle
  /\ previous = Idle
  /\ body \in Bodies
  /\ quotes = <<>> /\ fetches = <<>> /\ perSymbol = <<>>

\* A row not returned yet.
NoRow == Row([symbol |-> "", name |-> "", currency |-> "", price |-> Null, pe |-> Null,
              peg |-> Null, eps |-> Null], Null, Null, NullScore, Null, Null, Null)

\* if (!tickers.length) return 400
PostNoTickers ==
  /\ pc = "start"
  /\ Len(RequestTickers(body)) = 0
  /\ response' = [status |-> 400, results |-> <<>>]
  /\ pc' = "done"
  /\ UNCHANGED <<DefaultAssumptions, previous, input, score, assumptions, getVars, postVars>>

\* The handler up to its first await: the assumptions are built, fetchQuoteBatch
\* is called.
PostStart ==
  /\ pc = "start"
  /\ Len(RequestTickers(body)) > 0
  /\ assumptions' = PostAssumptions(body)
  /\ pc' = "quoting"
  /\ UNCHANGED <<DefaultAssumptions, previous, input, score, getVars, postVars, response>>

\* fetchQuoteBatch throws: the outer catch answers 500.
QuoteBatchFails ==
  /\ pc = "quoting"
  /\ response' = [status |-> 500, results |-> <<>>]
  /\ pc' = "done"
  /\ UNCHANGED <<DefaultAssumptions, previous, input, score, assumptions, getVars, postVars>>

\* fetchQuoteBatch answers with the quotes of the known tickers: one task per
\* quote starts, each with its two fetches.
QuoteBatchArrives ==
  /\ pc = "quoting"
  /\ LET found == SelectSeq(UniqueTickers(body), LAMBDA t : t \in Known)
     IN /\ quotes' = [i \in 1..Len(found) |-> QuoteOf(found[i])]
        /\ fetches' = [i \in 1..Len(found) |->
                         [summary |-> "pending", history |-> "pending", row |-> "none"]]
        /\ perSymbol' = [i \in 1..Len(found) |-> NoRow]
  /\ pc' = "scanning"
  /\ UNCHANGED <<DefaultAssumptions, previous, input, score, assumptions, getVars, body, response>>

\* Without the try of the task, the rejection reaches the outer catch.
TaskCatches_Rethrows(i) ==
  /\ perSymbol' = perSymbol
  /\ response' = [status |-> 500, results |-> <<>>]
  /\ pc' = "done"

\* The catch of task i returns the partial row.
TaskCatches(i) ==
  /\ perSymbol' = [perSymbol EXCEPT ![i] = PartialRow(quotes[i])]
  /\ UNCHANGED <<pc, response>>

\* The try of task i returns the full row.
TaskReturns(i) ==
  /\ perSymbol' = [perSymbol EXCEPT
       ![i] = FullRow(quotes[i], SummaryOf(quotes[i].symbol),
                      ClosesOf(quotes[i].symbol), assumptions)]
  /\ UNCHANGED <<pc, response>>

\* A fetch of task i answers: with both answers the task returns.
FetchArrives(i, f, g) ==
  /\ fetches[i][f] = "pending"
  /\ LET both == fetches[i].row = "none" /\ fetches[i][g] = "ok"
     IN /\ fetches' = [fetches EXCEPT ![i][f] = "ok",
                                      ![i].row = IF both THEN "full" ELSE @]
        /\ IF both THEN TaskReturns(i) ELSE UNCHANGED <<perSymbol, pc, response>>
  /\ UNCHANGED <<DefaultAssumptions, previous, input, score, assumptions, getVars, body, quotes>>

\* A fetch of task i fails: the inner Promise.all rejects at the first
\* failure; a later one finds the task returned.
FetchFails(i, f) ==
  /\ fetches[i][f] = "pending"
  /\ fetches' = [fetches EXCEPT ![i][f] = "failed",
                                ![i].row = IF @ = "none" THEN "partial" ELSE @]
  /\ IF fetches[i].row = "none" THEN TaskCatches(i) ELSE UNCHANGED <<perSymbol, pc, response>>
  /\ UNCHANGED <<DefaultAssumptions, previous, input, score, assumptions, getVars, body, quotes>>

SummaryArrives ==
  pc = "scanning" /\ \E i \in 1..Len(quotes) : FetchArrives(i, "summary", "history")
SummaryFails ==
  pc = "scanning" /\ \E i \in 1..Len(quotes) : FetchFails(i, "summary")
HistoryArrives ==
  pc = "scanning" /\ \E i \in 1..Len(quotes) : FetchArrives(i, "history", "summary")
HistoryFails ==
  pc = "scanning" /\ \E i \in 1..Len(quotes) : FetchFails(i, "history")

AllReturned == \A i \in 1..Len(quotes) : fetches[i].row # "none"

\* Every task returned: the outer Promise.all resolves, the rows are sorted
\* and sent.
PostRespond ==
  /\ pc = "scanning"
  /\ AllReturned
  /\ \E sorted \in SortOutcomes(perSymbol) :
       /\ perSymbol' = sorted
       /\ response' = [status |-> 200,
                       results |-> [i \in 1..Len(sorted) |-> JsonRow(sorted[i])]]
  /\ pc' = "done"
  /\ UNCHANGED <<DefaultAssumptions, previous, input, score, assumptions, getVars, body, quotes, fetches>>

NextScan ==
  \/ PostNoTickers \/ PostStart \/ QuoteBatchFails \/ QuoteBatchArrives
  \/ SummaryArrives \/ SummaryFails \/ HistoryArrives \/ HistoryFails
  \/ PostRespond

SpecScan == InitScan /\ [][NextScan]_vars

\* The scan answered with rows.
Scanned == pc = "done" /\ response.status = 200

\* The returned row of a symbol.
RowsOf(results, sym) == {k \in 1..Len(results) : results[k].symbol = sym}
RowOf(sym) == response.results[CHOOSE k \in RowsOf(response.results, sym) : TRUE]

\* The row task i returns when both of its fetches answer, as sent.
UnfailedRow(i) ==
  JsonRow(FullRow(quotes[i], SummaryOf(quotes[i].symbol), ClosesOf(quotes[i].symbol),
                  assumptions))

C6_Step ==
  pc = "scanning" =>
    \/ pc' = "scanning"
    \/ /\ pc' = "done"
       /\ response'.status = 200
       /\ Len(response'.results) = Len(quotes)
       /\ \A i \in 1..Len(quotes) :
            /\ Cardinality(RowsOf(response'.results, quotes[i].symbol)) = 1
            /\ fetches[i].row = "full" =>
                 \E k \in 1..Len(response'.results) : response'.results[k] = UnfailedRow(i)

\* C6: once the quotes are fetched, whichever fetches fail and in whatever
\* order the fetches complete, the request can only end with a success
\* response that holds exactly one row per fetched quote, the row of every
\* symbol whose two fetches answered being the row it has when no symbol
\* fails; and until it ends the request is never stuck on a task: a task
\* that has not returned still awaits a fetch.
C6_TasksIndependent ==
  /\ [][C6_Step]_vars
  /\ [](pc = "scanning" =>
          \A i \in 1..Len(quotes) :
            fetches[i].row = "none" =>
              (fetches[i].summary = "pending" \/ fetches[i].history = "pending"))

\* A scan of three quotes answered with a task that failed and a task that
\* did not.
C6_Witness ==
  /\ Scanned
  /\ Len(quotes) = 3
  /\ \E i, j \in 1..Len(quotes) : fetches[i].row = "partial" /\ fetches[j].row = "full"

\* The quote fields of row r are those of quote q.
QuoteFieldsPopulated(r, q) ==
  /\ r.symbol = q.symbol
  /\ r.name = (IF q.longName # "" THEN q.longName
               ELSE IF q.shortName # "" THEN q.shortName ELSE q.symbol)
  /\ r.currency = (IF q.currency # "" THEN q.currency ELSE "USD")
  /\ r.price = q.regularMarketPrice
  /\ r.pe = (IF ~IsNull(q.trailingPE) THEN q.trailingPE ELSE q.forwardPE)
  /\ r.peg = q.pegRatio

\* The derived fields of row r, the score apart, are null.
DerivedFieldsNull(r) ==
  /\ IsNull(r.roe) /\ IsNull(r.de) /\ IsNull(r.priceChange1y)
  /\ IsNull(r.intrinsicValue) /\ IsNull(r.upsidePercent)

\* C7 as stated: the row of a symbol whose fetch failed has the quote fields
\* of its quote and null roe, de, priceChange1y, score, intrinsicValue and
\* upsidePercent.
C7_FailedRowScoreNull ==
  Scanned =>
    \A i \in 1..Len(quotes) :
      fetches[i].row = "partial" =>
        LET r == RowOf(quotes[i].symbol)
        IN /\ QuoteFieldsPopulated(r, quotes[i])
           /\ DerivedFieldsNull(r)
           /\ (r.score = Null \/ r.score = NullScore)

\* C7: the row of a symbol whose fetch failed has the quote fields of its
\* quote (symbol, name, currency, price, pe, peg, and eps), null roe, de,
\* priceChange1y, intrinsicValue and upsidePercent, and a score that is not
\* null: the score of the quote alone, every sub-score and the total an
\* integer in [0, 100].
C7_FailedRowPartial ==
  Scanned =>
    \A i \in 1..Len(quotes) :
      fetches[i].row = "partial" =>
        LET r == RowOf(quotes[i].symbol)
        IN /\ QuoteFieldsPopulated(r, quotes[i])
           /\ r.eps = quotes[i].epsTrailingTwelveMonths
           /\ DerivedFieldsNull(r)
           /\ \A f \in ScoreFields : IsScore(r.score[f])
           /\ r.score = scoreScanner([quote |-> quotes[i], financials |-> NoFinancials,
                                      earnings |-> NoEarnings, priceChange1y |-> Null])

\* A scan answered with the row of a failed task next to the row of a task
\* that did not fail.
C7_Witness ==
  /\ Scanned
  /\ \E i, j \in 1..Len(quotes) :
       /\ fetches[i].row = "partial" /\ fetches[i].summary = "failed"
       /\ quotes[i].symbol = "BBB"
       /\ fetches[j].row = "full"

\* a >= b as the language evaluates it on a number or null: null counts as 0.
GeJs(a, b) == Le(IF IsNull(b) THEN Zero ELSE b, IF IsNull(a) THEN Zero ELSE a)

\* Row a may stand before row b.
Ordered(a, b) ==
  /\ GeJs(a.score.total, b.score.total)
  /\ a.score.total = b.score.total =>
       (IsNull(b.upsidePercent) \/
        (~IsNull(a.upsidePercent) /\ Le(b.upsidePercent, a.upsidePercent)))

\* C8: the returned rows are ordered: of two adjacent rows the first has the
\* greater or equal total and, the totals equal, the greater or equal
\* upsidePercent, a null upsidePercent after every non-null one.
C8_RowsOrdered ==
  Scanned =>
    \A k \in 1..(Len(response.results) - 1) :
      Ordered(response.results[k], response.results[k + 1])

\* ------------------------------------------------- the total of scoreScanner

\* x clamped to [0, 1].
Clamp(x) == IF Lt(x, Zero) THEN Zero ELSE IF Lt(One, x) THEN One ELSE x

\* round(100 * x)
Displayed(x) == MathRound(Mul(Int_(100), x))

\* round(100 * (0.28 p + 0.28 g + 0.18 f + 0.18 v + 0.08 m))
TotalOf(p, g, f, v, m) ==
  MathRound(Mul(Int_(100),
                Add(Add(Add(Add(Mul(Frac(28, 100), p), Mul(Frac(28, 100), g)),
                            Mul(Frac(18, 100), f)),
                        Mul(Frac(18, 100), v)),
                    Mul(Frac(8, 100), m))))

\* C11: the total scoreScanner returns is round(100 * (0.28 p + 0.28 g +
\* 0.18 f + 0.18 v + 0.08 m)) of the five clamped sub-scores before their
\* rounding, and each sub-score it returns is round(100 * its clamped value).
C11_TotalFromUnrounded ==
  pc = "done" =>
    LET raw == RawScores(input)
        p == Clamp(raw.profitability)
        g == Clamp(raw.growth)
        f == Clamp(raw.financialHealth)
        v == Clamp(raw.valuation)
        m == Clamp(raw.momentum)
    IN /\ score.total = TotalOf(p, g, f, v, m)
       /\ score.profitability = Displayed(p)
       /\ score.growth = Displayed(g)
       /\ score.financialHealth = Displayed(f)
       /\ score.valuation = Displayed(v)
       /\ score.momentum = Displayed(m)

\* A score whose total is a number other than the one the displayed integers
\* give.
C11_Witness ==
  /\ pc = "done"
  /\ IsNum(score.total)
  /\ score.total # TotalOf(Div(score.profitability, Int_(100)), Div(score.growth, Int_(100)),
                           Div(score.financialHealth, Int_(100)),
                           Div(score.valuation, Int_(100)), Div(score.momentum, Int_(100)))

\* ------------------------------------------------- normalize alone

\* The calibration ranges of scoreScanner's calls of normalize.
Ranges ==
  {<<Frac(5, 100), Frac(30, 100)>>, <<Frac(5, 100), Frac(25, 100)>>,
   <<Int_(30), Int_(150)>>, <<Int_(10), Int_(35)>>, <<Frac(8, 10), Int_(2)>>,
   <<Frac(-2, 10), Frac(6, 10)>>}

\* The metric values: missing, not finite, the bounds of the ranges, ordinary
\* values and values far out of every range.
MetricValues ==
  {Null, NaN, PosInf, NegInf, Huge, Num(-(MaxN \div 2)),
   Frac(123, 1000), Frac(5, 10), Frac(187, 10), Int_(45), Int_(1000), Int_(-1)}
  \cup {r[1] : r \in Ranges} \cup {r[2] : r \in Ranges}

\* The arguments normalize is applied to: the ranges of the code, each also
\* reversed (lower is better) and collapsed (low = high).
NormalizeInputs ==
  {[value |-> v, low |-> r[1], high |-> r[2]] : v \in MetricValues, r \in Ranges}
  \cup {[value |-> v, low |-> r[2], high |-> r[1]] : v \in MetricValues, r \in Ranges}
  \cup {[value |-> v, low |-> r[1], high |-> r[1]] : v \in MetricValues, r \in Ranges}

InitNormalize ==
  /\ pc = "start"
  /\ DefaultAssumptions = DefaultAssumptionsValue
  /\ input \in NormalizeInputs
  /\ score = Idle
  /\ query = Idle /\ summary = Idle /\ assumptions = Idle
  /\ intrinsic = Idle /\ rates = Idle /\ projections = Idle /\ response = Idle
  /\ previous = Idle
  /\ body = Idle /\ quotes = Idle /\ fetches = Idle /\ perSymbol = Idle

\* normalize(value, low, high)
Normalize ==
  /\ pc = "start"
  /\ score' = normalize(input.value, input.low, input.high)
  /\ pc' = "done"
  /\ UNCHANGED <<DefaultAssumptions, previous, input, assumptions, getVars, postVars, response>>

NextNormalize == Normalize

SpecNormalize == InitNormalize /\ [][NextNormalize]_vars

\* C12: normalize returns exactly 0.5 for a null or non-finite value and for
\* low = high; with low < high it returns 0 at value = low and 1 at value =
\* high; with low > high it returns 1 at the numerically lower bound (high)
\* and 0 at the numerically upper bound (low).
C12_NormalizeAtBounds ==
  pc = "done" =>
    LET v == input.value
        finite == v.k = "num"
    IN /\ ~finite => score = Frac(5, 10)
       /\ input.low = input.high => score = Frac(5, 10)
       /\ (finite /\ input.low.n < input.high.n /\ v = input.low) => score = Zero
       /\ (finite /\ input.low.n < input.high.n /\ v = input.high) => score = One
       /\ (finite /\ input.low.n > input.high.n /\ v = input.high) => score = One
       /\ (finite /\ input.low.n > input.high.n /\ v = input.low) => score = Zero

\* normalize applied to the numerically lower bound of a lower-is-better range.
C12_Witness ==
  /\ pc = "done"
  /\ input.low.n > input.high.n
  /\ input.value = input.high
  /\ score = One

\* C13: whatever the value and the range, normalize returns a number in [0, 1].
C13_NormalizeInUnit ==
  pc = "done" => (IsNum(score) /\ 0 <= score.n /\ score.n <= PREC)

\* ------------------------------------------------- finiteness of the results

\* Null or a finite number.
NullOrFinite(v) == IsNull(v) \/ IsNum(v)

\* C14: every intrinsicValue and upsidePercent of computeIntrinsicValue and
\* every low, base and high of projectFuturePrices that is not null is a
\* finite number, whatever assumptions the route passes.
C14_ResultsFinite ==
  Computed =>
    /\ NullOrFinite(intrinsic.intrinsicValue)
    /\ NullOrFinite(intrinsic.upsidePercent)
    /\ \A i \in 1..Len(projections) :
         /\ NullOrFinite(projections[i].low)
         /\ NullOrFinite(projections[i].base)
         /\ NullOrFinite(projections[i].high)

\* ------------------------------------------------- requests one after another

\* The search parameters of the requests of a sequence: no override, one,
\* and the three others.
RequestQueries ==
  {[symbol |-> sym, discountRate |-> o[1], growth |-> o[2], years |-> o[3],
    exitPE |-> o[4]] :
     sym \in {"", "aapl"},
     o \in {<<"", "", "", "">>, <<"0", "", "", "">>, <<"", "0.5", "3", "20">>}}

\* What fetchSummary answers them.
RequestSummaries ==
  { [quote |-> [symbol |-> "AAPL", epsTrailingTwelveMonths |-> Int_(10),
                regularMarketPrice |-> Int_(100)],
     earningsTrend |-> [growthLongTerm |-> gl, growthNextYear |-> Null,
                        growthThisYear |-> Null]] :
      gl \in {Null, Frac(10, 100)} }

\* The bodies of the batch scans of a sequence.
RequestBodies ==
  {[tickers |-> t, tickersText |-> NoText, assumptions |-> o] :
     t \in {<<>>, <<"AAA">>, <<"BBB", "AAA">>},
     o \in {NoOverride,
            [NoOverride EXCEPT !.years = Int_(1), !.discountRate = Zero],
            [NoOverride EXCEPT !.baseGrowth = Frac(5, 100), !.highGrowth = Frac(25, 100),
                               !.lowGrowth = Frac(2, 100), !.exitPE = Int_(20),
                               !.dividendPayoutRatio = Frac(30, 100)]}}

\* The page with `const assumptions = DefaultAssumptions`: its assignments
\* write the shared record.
StockPageAssumptions_Aliased(q) ==
  LET a == GetAssumptions(q) IN [shared |-> a, own |-> a]

\* const assumptions = { ...DefaultAssumptions } and the four assignments of
\* the page: they write the copy (own) and leave the module's record (shared).
StockPageAssumptions(q) ==
  [shared |-> DefaultAssumptions,
   own |-> [DefaultAssumptions EXCEPT
              !.discountRate = IF q.discountRate # "" THEN NumberOf(q.discountRate) ELSE @,
              !.baseGrowth = IF q.growth # "" THEN NumberOf(q.growth) ELSE @,
              !.years = IF q.years # "" THEN NumberOf(q.years) ELSE @,
              !.exitPE = IF q.exitPE # "" THEN NumberOf(q.exitPE) ELSE @]]

InitRequests ==
  /\ pc = "idle"
  /\ DefaultAssumptions = DefaultAssumptionsValue
  /\ input = Idle /\ score = Idle
  /\ query = Idle /\ summary = Idle /\ assumptions = Idle
  /\ intrinsic = Idle /\ rates = Idle /\ projections = Idle /\ response = Idle
  /\ previous = Idle
  /\ body = Idle /\ quotes = Idle /\ fetches = Idle /\ perSymbol = Idle

\* The request computes nothing.
NoResults == intrinsic' = Idle /\ rates' = Idle /\ projections' = Idle

\* computeIntrinsicValue and projectFuturePrices on summary s under a.
Results(s, a) ==
  /\ intrinsic' = computeIntrinsicValue(s.quote, s.earningsTrend, a)
  /\ rates' = ProjectionGrowth(s.earningsTrend, a)
  /\ projections' = projectFuturePrices(s.quote, s.earningsTrend, a)

\* A whole GET request.
GetRequest ==
  /\ \E q \in RequestQueries :
       /\ query' = q
       /\ \/ /\ ToUpperCase(q.symbol) = ""
             /\ assumptions' = Idle /\ summary' = Idle /\ NoResults
             /\ response' = [status |-> 400]
          \/ /\ ToUpperCase(q.symbol) # ""
             /\ assumptions' = GetAssumptions(q)
             /\ \/ /\ summary' = Idle /\ NoResults
                   /\ response' = [status |-> 500]
                \/ \E s \in RequestSummaries :
                     /\ summary' = s
                     /\ Results(s, GetAssumptions(q))
                     /\ response' = [status |-> 200]
  /\ pc' = "get"
  /\ previous' = assumptions
  /\ body' = Idle /\ quotes' = Idle /\ fetches' = Idle /\ perSymbol' = Idle
  /\ UNCHANGED <<DefaultAssumptions, input, score>>

\* A whole rendering of the stock page.
PageRequest ==
  /\ \E q \in RequestQueries :
       /\ q.symbol # ""
       /\ query' = q
       /\ \/ /\ summary' = Idle /\ NoResults
             /\ assumptions' = Idle
             /\ response' = [status |-> 500]
             /\ UNCHANGED DefaultAssumptions
          \/ \E s \in RequestSummaries :
               /\ summary' = s
               /\ DefaultAssumptions' = StockPageAssumptions(q).shared
               /\ assumptions' = StockPageAssumptions(q).own
               /\ Results(s, StockPageAssumptions(q).own)
               /\ response' = [status |-> 200]
  /\ pc' = "page"
  /\ previous' = assumptions
  /\ body' = Idle /\ quotes' = Idle /\ fetches' = Idle /\ perSymbol' = Idle
  /\ UNCHANGED <<input, score>>

\* The rows of the tasks of a scan of quotes qs under a, the tasks of the
\* symbols in failed having caught a failed fetch.
TaskRows(qs, failed, a) ==
  [i \in 1..Len(qs) |->
     IF qs[i].symbol \in failed
       THEN PartialRow(qs[i])
       ELSE FullRow(qs[i], SummaryOf(qs[i].symbol), ClosesOf(qs[i].symbol), a)]

\* A whole batch scan.
ScanRequest ==
  /\ \E b \in RequestBodies :
       /\ body' = b
       /\ \/ /\ Len(RequestTickers(b)) = 0
             /\ assumptions' = Idle
             /\ quotes' = <<>> /\ fetches' = <<>> /\ perSymbol' = <<>>
             /\ response' = [status |-> 400, results |-> <<>>]
          \/ /\ Len(RequestTickers(b)) > 0
             /\ assumptions' = PostAssumptions(b)
             /\ \/ /\ quotes' = <<>> /\ fetches' = <<>> /\ perSymbol' = <<>>
                   /\ response' = [status |-> 500, results |-> <<>>]
                \/ LET found == SelectSeq(UniqueTickers(b), LAMBDA t : t \in Known)
                       qs == [i \in 1..Len(found) |-> QuoteOf(found[i])]
                   IN \E failed \in SUBSET {found[i] : i \in 1..Len(found)} :
                        \E sorted \in SortOutcomes(TaskRows(qs, failed, PostAssumptions(b))) :
                          /\ quotes' = qs
                          /\ fetches' = [i \in 1..Len(qs) |->
                                           IF qs[i].symbol \in failed
                                             THEN [summary |-> "failed", history |-> "pending",
                                                   row |-> "partial"]
                                             ELSE [summary |-> "ok", history |-> "ok",
                                                   row |-> "full"]]
                          /\ perSymbol' = sorted
                          /\ response' =
                               [status |-> 200,
                                results |-> [i \in 1..Len(sorted) |-> JsonRow(sorted[i])]]
  /\ pc' = "post"
  /\ previous' = assumptions
  /\ query' = Idle /\ summary' = Idle /\ NoResults
  /\ UNCHANGED <<DefaultAssumptions, input, score>>

NextRequests == GetRequest \/ PageRequest \/ ScanRequest

SpecRequests == InitRequests /\ [][NextRequests]_vars

\* The defaults, as the contract states them.
StatedDefaults ==
  [discountRate |-> Frac(10, 100), baseGrowth |-> Frac(12, 100),
   highGrowth |-> Frac(18, 100), lowGrowth |-> Frac(8, 100), years |-> Int_(5),
   exitPE |-> Int_(15), dividendPayoutRatio |-> Frac(15, 100)]

\* The stated defaults overlaid with the overrides of search parameters q.
OverlaidByQuery(q) ==
  [f \in DOMAIN StatedDefaults |->
     CASE f = "discountRate" /\ q.discountRate # "" -> NumberOf(q.discountRate)
       [] f = "baseGrowth" /\ q.growth # "" -> NumberOf(q.growth)
       [] f = "years" /\ q.years # "" -> NumberOf(q.years)
       [] f = "exitPE" /\ q.exitPE # "" -> NumberOf(q.exitPE)
       [] OTHER -> StatedDefaults[f]]

\* The stated defaults overlaid with the overrides of body b.
OverlaidByBody(b) ==
  [f \in DOMAIN StatedDefaults |->
     IF IsNull(b.assumptions[f]) THEN StatedDefaults[f] ELSE b.assumptions[f]]

\* C15: after any sequence of requests the shared DefaultAssumptions holds
\* the stated defaults; the Assumptions of each request are the defaults
\* overlaid with exactly its own overrides, and its results are those of
\* computeIntrinsicValue and projectFuturePrices under these assumptions,
\* which the results echo unchanged: no earlier request affects them.
C15_DefaultsUnshared ==
  /\ DefaultAssumptions = StatedDefaults
  /\ (pc \in {"get", "page"} /\ response.status = 200) =>
       LET a == OverlaidByQuery(query)
       IN /\ assumptions = a
          /\ intrinsic = computeIntrinsicValue(summary.quote, summary.earningsTrend, a)
          /\ projections = projectFuturePrices(summary.quote, summary.earningsTrend, a)
          /\ intrinsic.inputsUsed.discountRate = a.discountRate
          /\ intrinsic.inputsUsed.years = a.years
          /\ intrinsic.inputsUsed.exitPE = a.exitPE
          /\ intrinsic.inputsUsed.dividendPayoutRatio = a.dividendPayoutRatio
  /\ (pc = "post" /\ response.status = 200) =>
       LET a == OverlaidByBody(body)
       IN /\ assumptions = a
          /\ \A i \in 1..Len(quotes) :
               fetches[i].row = "full" =>
                 \E k \in 1..Len(response.results) :
                   response.results[k] =
                     JsonRow(FullRow(quotes[i], SummaryOf(quotes[i].symbol),
                                     ClosesOf(quotes[i].symbol), a))

\* A request without overrides answered under the defaults after a request
\* that overrode them.
C15_Witness ==
  /\ pc \in {"get", "post"}
  /\ response.status = 200
  /\ assumptions = StatedDefaults
  /\ previous # Idle
  /\ previous.discountRate = Zero

====
